---- MODULE Spec2Model ----
(***************************************************************************)
(* Chat synchronization engine of the Clawdbot Home Assistant panel        *)
(* (ha-config/www/clawdbot-panel.js): the local window of chat messages,   *)
(* the poll loop, backward pagination, local send and session switch,      *)
(* running as cooperative handlers that suspend at the RPC awaits.          *)
(*                                                                         *)
(* Timestamps are ISO-8601 strings of one fixed width in the program; they *)
(* are modelled as naturals whose numeric order is the strings'            *)
(* lexicographic order, 0 standing for the empty/absent timestamp.  Ids    *)
(* are naturals, 0 standing for an absent id.                              *)
(***************************************************************************)
EXTENDS Integers, Sequences, FiniteSets, TLC

\* ---- program constants (clawdbot-panel.js:43-49, 627) ----
CHAT_POLL_INTERVAL_MS == 5000
CHAT_POLL_FAST_MS == 2000
CHAT_POLL_INITIAL_MS == 1000
CHAT_POLL_BOOST_WINDOW_MS == 30000
CHAT_DELTA_LIMIT == 200
CHAT_HISTORY_PAGE_LIMIT == 50
CHAT_UI_MAX_ITEMS == 200
MinTimerDelay == 500

\* ---- bounds of the model ----
MaxMsgs == 1         \* messages the remote logs gain in one run
BigLen == 252        \* messages of the long remote log
MidLen == 52         \* messages of a history a little longer than one page
ShortLen == 20       \* messages of a history that fits one page and overflows the viewport
MaxPolls == 2        \* poll cycles that may be awaiting an RPC at once
MaxInFlight == 2     \* handlers and poll cycles suspended at an await at once
MaxTicks == 1        \* clock advances
MaxClicks == 3       \* user actions (tab, session, send, load older) in one run

Sessions == {"s1", "s2"}
NoSession == "none"
Roles == {"user", "agent"}
\* the messages a log may gain: role, whether the server assigned an id, timestamp step
MsgKinds == {[role |-> "agent", hasId |-> TRUE, step |-> 1], [role |-> "user", hasId |-> TRUE, step |-> 1],
             [role |-> "agent", hasId |-> FALSE, step |-> 0]}
Outcomes == {"ok", "malformed", "error"}
TickMs == CHAT_POLL_BOOST_WINDOW_MS
IdBase(s) == IF s = "s1" THEN 0 ELSE 100

Max2(a, b) == IF a >= b THEN a ELSE b
LastN(s, n) == IF Len(s) <= n THEN s ELSE SubSeq(s, Len(s) - n + 1, Len(s))
Range(s) == {s[i] : i \in 1..Len(s)}

\* ---- dedupe key ----

\* character codes of the strings that are hashed
RoleChars(r) == IF r = "user" THEN <<117, 115, 101, 114>> ELSE <<97, 103, 101, 110, 116>>
TsChars(ts) == <<48 + ((ts \div 100) % 10), 48 + ((ts \div 10) % 10), 48 + (ts % 10)>>
TextChars(t) == IF t = "hi" THEN <<104, 105>> ELSE <<>>

\* one step h = ((h << 5) + h) + c.  The program reports h >>> 0, which is the
\* djb2 sum mod 2^32; the hash is kept mod 2^32 as two 16-bit halves
HashStep(h, c) ==
  LET lo == 33 * h[2] + c
      hi == 33 * h[1] + (lo \div 65536)
  IN  <<hi % 65536, lo % 65536>>

RECURSIVE HashFrom(_, _, _)
HashFrom(h, str, i) == IF i > Len(str) THEN h ELSE HashFrom(HashStep(h, str[i]), str, i + 1)

\* simpleHash: djb2 from 5381, reported as an unsigned 32-bit number
simpleHash(str) == HashFrom(<<0, 5381>>, str, 1)

chatItemKey(it) ==
  IF it.id # 0 THEN <<"id", it.id>>
  ELSE <<"h", simpleHash(RoleChars(it.role) \o <<124>> \o TsChars(it.ts) \o <<124>> \o TextChars(it.text))>>

Keys(items) == {chatItemKey(items[i]) : i \in 1..Len(items)}

syncChatSeenIds(seen, items) == IF seen # {} THEN seen ELSE Keys(items)

\* a loop "for (const it of seq) acc = Step(acc, it)", unfolded by halves
RECURSIVE ForEach(_, _, _, _, _)
ForEach(Step(_, _), acc, seq, lo, hi) ==
  IF lo > hi THEN acc
  ELSE IF lo = hi THEN Step(acc, seq[lo])
  ELSE LET mid == (lo + hi) \div 2
           left == ForEach(Step, acc, seq, lo, mid)
       IN  IF left = left THEN ForEach(Step, left, seq, mid + 1, hi) ELSE left

MaxTsStep(max, it) == IF it.ts # 0 /\ it.ts > max THEN it.ts ELSE max

maxChatTs(items) == ForEach(MaxTsStep, 0, items, 1, Len(items))

\* ---- remote channel (chat_history_delta, chat_append) ----

QueryLatest(L, limit) == [items |-> LastN(L, limit), has_older |-> Len(L) > limit]

QueryAfter(L, afterTs, limit) ==
  LET m == SelectSeq(L, LAMBDA it : it.ts >= afterTs)
  IN  [items |-> LastN(m, limit), has_older |-> Len(L) > Len(LastN(m, limit))]

QueryBefore(L, beforeId, limit) ==
  LET pos == {i \in 1..Len(L) : L[i].id = beforeId}
      older == IF pos = {} THEN <<>> ELSE SubSeq(L, 1, (CHOOSE i \in pos : TRUE) - 1)
  IN  [items |-> LastN(older, limit), has_older |-> Len(older) > limit]

\* the message chat_append stores
UserKind == [role |-> "user", hasId |-> TRUE, step |-> 1]

NewMessage(L, s, kind) ==
  [id |-> IF kind.hasId THEN IdBase(s) + Len(L) + 1 ELSE 0,
   ts |-> IF Len(L) = 0 THEN 1 ELSE L[Len(L)].ts + kind.step,
   role |-> kind.role, sk |-> s, text |-> "hi"]


\* ---- window algorithms ----

\* the merge loop without the test of existing.has(k)
MergeStepKeepsAll(acc, it) ==
  [items |-> Append(acc.items, it), existing |-> acc.existing \cup {chatItemKey(it)}]

\* pollSessionsHistory, "Merge new items onto existing list"
MergeStep(acc, it) ==
  LET k == chatItemKey(it)
  IN  IF k \in acc.existing THEN acc
      ELSE [items |-> Append(acc.items, it), existing |-> acc.existing \cup {k}]

TrimWindow(items) == IF Len(items) > CHAT_UI_MAX_ITEMS THEN LastN(items, CHAT_UI_MAX_ITEMS) ELSE items

\* the loop of lines 619-625 over a batch
MergeAll(items, newer) ==
  ForEach(MergeStep, [items |-> items, existing |-> Keys(items)], newer, 1, Len(newer)).items

MergeNewer(items, newer) ==
  IF Len(newer) # 0
  THEN TrimWindow(MergeAll(items, newer))
  ELSE items

\* pollSessionsHistory, "+N: count newly-seen agent keys among returned items"
CountStep(acc, it) ==
  LET key == chatItemKey(it)
  IN  IF key \in acc.seen THEN acc
      ELSE [seen |-> acc.seen \cup {key}, count |-> IF it.role = "agent" THEN acc.count + 1 ELSE acc.count]

CountAppended(seenBefore, newer) == ForEach(CountStep, [seen |-> seenBefore, count |-> 0], newer, 1, Len(newer))

\* loadOlderChat: the anchor and the items to prepend
FirstId(items) ==
  LET withId == {i \in 1..Len(items) : items[i].id # 0}
  IN  IF withId = {} THEN 0
      ELSE items[CHOOSE i \in withId : \A j \in withId : i <= j].id

\* the page assigned in place of the window
PrependOlderDropsWindow(items, page) ==
  LET existing == {items[i].id : i \in 1..Len(items)} \ {0}
      prepend == SelectSeq(page, LAMBDA it : it.id # 0 /\ it.id \notin existing)
  IN  IF Len(prepend) # 0 THEN prepend ELSE items

PrependOlder(items, page) ==
  LET existing == {items[i].id : i \in 1..Len(items)} \ {0}
      prepend == SelectSeq(page, LAMBDA it : it.id # 0 /\ it.id \notin existing)
  IN  IF Len(prepend) # 0 THEN prepend \o items ELSE items

\* the poll timer: handle is chatPollTimer being set, live tells that the timer it
\* names has not fired yet, pending counts the poll timers the event loop holds.
\* clearTimeout(chatPollTimer) has no effect on a timer that has fired.
clearTimeout(timer) ==
  [timer EXCEPT !.live = FALSE, !.pending = IF timer.live THEN @ - 1 ELSE @]

\* the timer chatPollTimer names fires
timerFired(timer) == [timer EXCEPT !.live = FALSE, !.pending = @ - 1]

\* scheduleChatPoll without its first line: arms the timer also when polling is stopped
scheduleUnguarded(active, timer, delayMs) ==
  [handle |-> TRUE, live |-> TRUE, delay |-> Max2(MinTimerDelay, delayMs),
   pending |-> clearTimeout(timer).pending + 1]

\* scheduleChatPoll without its clearTimeout
scheduleNoClear(active, timer, delayMs) ==
  IF ~active THEN timer
  ELSE [handle |-> TRUE, live |-> TRUE, delay |-> Max2(MinTimerDelay, delayMs),
        pending |-> timer.pending + 1]

\* scheduleChatPoll: clears the pending timer and arms a new one
scheduleChatPoll(active, timer, delayMs) ==
  IF ~active THEN timer
  ELSE [handle |-> TRUE, live |-> TRUE, delay |-> Max2(MinTimerDelay, delayMs),
        pending |-> clearTimeout(timer).pending + 1]

\* ---- state ----

\* ---- the chat list element ----

\* layout of the list, in pixels: every row as high as the next, the placeholder of
\* the empty window lower than the viewport
RowHeight == 20
ClientHeight == 300
EmptyHeight == 40
\* isAtBottom: "gap < 6"
BottomGap == 6

NoList == [rows |-> 0, scrollTop |-> 0]

\* list.scrollHeight and list.clientHeight; both read 0 under display:none
scrollHeight(rows, visible) ==
  IF ~visible THEN 0
  ELSE Max2(ClientHeight, IF rows = 0 THEN EmptyHeight ELSE rows * RowHeight)

clientHeight(visible) == IF visible THEN ClientHeight ELSE 0

\* an assignment to list.scrollTop is clamped to the scrollable range
ClampScroll(v, rows, visible) ==
  LET top == scrollHeight(rows, visible) - clientHeight(visible)
  IN  IF v < 0 THEN 0 ELSE IF v > top THEN top ELSE v

isAtBottom(l, visible) ==
  scrollHeight(l.rows, visible) - l.scrollTop - clientHeight(visible) < BottomGap

\* renderChat pinning to the bottom on autoScroll only
renderChatNoPin(l, items, mode, visible) ==
  LET prevScrollHeight == scrollHeight(l.rows, visible)
      prevScrollTop == l.scrollTop
      rows == Len(items)
      nextScrollHeight == scrollHeight(rows, visible)
  IN  IF rows = 0
      THEN [rows |-> 0, scrollTop |-> ClampScroll(prevScrollTop, 0, visible)]
      ELSE IF mode = "preserve"
      THEN [rows |-> rows, scrollTop |-> ClampScroll(nextScrollHeight - prevScrollHeight + prevScrollTop, rows, visible)]
      ELSE IF mode = "auto"
      THEN [rows |-> rows, scrollTop |-> ClampScroll(nextScrollHeight, rows, visible)]
      ELSE [rows |-> rows, scrollTop |-> ClampScroll(prevScrollTop, rows, visible)]

\* renderChat(opts): mode is "preserve" (preserveScroll), "auto" (autoScroll) or
\* "default" (no option); the rows are replaced, then the offset is set
renderChat(l, items, mode, visible) ==
  LET wasAtBottom == isAtBottom(l, visible)
      prevScrollHeight == scrollHeight(l.rows, visible)
      prevScrollTop == l.scrollTop
      rows == Len(items)
      nextScrollHeight == scrollHeight(rows, visible)
  IN  IF rows = 0
      THEN [rows |-> 0, scrollTop |-> ClampScroll(prevScrollTop, 0, visible)]
      ELSE IF mode = "preserve"
      THEN [rows |-> rows, scrollTop |-> ClampScroll(nextScrollHeight - prevScrollHeight + prevScrollTop, rows, visible)]
      ELSE IF mode = "auto" \/ wasAtBottom
      THEN [rows |-> rows, scrollTop |-> ClampScroll(nextScrollHeight, rows, visible)]
      ELSE [rows |-> rows, scrollTop |-> ClampScroll(prevScrollTop, rows, visible)]

\* setHidden(viewChat, true): the view leaves the layout and its scroll offset is lost
hideList(l) == [l EXCEPT !.scrollTop = 0]

VARIABLES
  log,                  \* remote store: session -> sequence of messages
  now,                  \* Date.now()
  cfg,                  \* window.__CLAWDBOT_CONFIG__ as rendered at page load
  tab,                  \* the visible view
  chatItems, chatHasOlder, chatLoadingOlder, chatSessionKey,
  chatPollingActive, chatPollTimer, chatLastSeenIds, chatPollBoostUntil,
  chatLastPollAppended, chatLastPollError,
  polls,                \* poll cycles suspended at an await
  tabChat, tabOther,    \* switchTab handlers suspended at an await
  sw,                   \* sessionSel.onchange handler
  snd,                  \* composerSend.onclick handler
  older,                \* loadOlderChat call
  list,                 \* the #chatList element: rows materialised and scroll offset
  pollMark,             \* history: session and log length served to the last completed poll,
                        \* session and after_ts of the last delta request of a poll
  budget                \* history: user actions and remote messages still allowed in this run

remoteVars == <<log, now, cfg>>
windowVars == <<chatItems, chatHasOlder, chatLastSeenIds>>
pollVars == <<chatPollingActive, chatPollTimer, chatPollBoostUntil, chatLastPollAppended, chatLastPollError>>
handlerVars == <<tabChat, tabOther, sw, snd, older>>
vars == <<log, now, cfg, tab, chatItems, chatHasOlder, chatLoadingOlder, chatSessionKey,
          chatPollingActive, chatPollTimer, chatLastSeenIds, chatPollBoostUntil,
          chatLastPollAppended, chatLastPollError, polls, tabChat, tabOther, sw, snd, older,
          list, pollMark, budget>>

NoMark == [session |-> NoSession, len |-> 0, sent |-> NoSession, afterTs |-> 0]
IdlePoll == [pc |-> "idle", session |-> NoSession, seenBefore |-> {}, afterTs |-> 0, callLen |-> 0, mark |-> NoMark]
IdleCall == [pc |-> "idle", session |-> NoSession, callLen |-> 0]
\* snd.appends counts the chat_append calls the send in progress has issued and
\* snd.stored records whether the call stored the message
IdleSend == [pc |-> "idle", session |-> NoSession, callLen |-> 0, appends |-> 0, stored |-> FALSE]
\* older.last records what the last loadOlderChat step did: "busy" (returned at the
\* guard), "noanchor", "called" (RPC issued), "retried" (RPC issued after a failed
\* one), "failed" (catch), "applied"
IdleOlder == [pc |-> "idle", session |-> NoSession, beforeId |-> 0, callLen |-> 0, last |-> "none"]
NoTimer == [handle |-> FALSE, live |-> FALSE, delay |-> 0, pending |-> 0]

LogLen(s) == IF s \in Sessions THEN Len(log[s]) ELSE 0
Prefix(s, n) == SubSeq(log[s], 1, n)

PollsInFlight == {i \in 1..MaxPolls : polls[i].pc # "idle"}
InFlight ==
  Cardinality(PollsInFlight)
  + (IF tabChat.pc # "idle" THEN 1 ELSE 0) + (IF tabOther # "idle" THEN 1 ELSE 0)
  + (IF sw.pc # "idle" THEN 1 ELSE 0) + (IF snd.pc # "idle" THEN 1 ELSE 0)
  + (IF older.pc # "idle" THEN 1 ELSE 0)
MayStart == InFlight < MaxInFlight
MayClick == MayStart /\ budget.clicks > 0

FirstMessage == [id |-> 1, ts |-> 1, role |-> "agent", sk |-> "s1", text |-> "hi"]

\* the page configuration rendered for session k; debug is the ?debug=1 toggle (DEBUG_UI)
SmallLog == [s \in Sessions |-> IF s = "s1" THEN <<FirstMessage>> ELSE <<>>]
SmallCfg(k, debug) ==
  [session_key |-> k, chat_history |-> IF k = "s1" THEN SmallLog["s1"] ELSE <<>>,
   has_older |-> FALSE, debug |-> debug]

\* the state after the script has loaded: lines 51-61
Start(logs, c, clicks, msgs) ==
  /\ log = logs
  /\ now = TickMs
  /\ cfg = c
  /\ tab = "other"
  /\ chatItems = <<>>
  /\ chatHasOlder = FALSE
  /\ chatLoadingOlder = FALSE
  /\ chatSessionKey = NoSession
  /\ chatPollingActive = FALSE
  /\ chatPollTimer = NoTimer
  /\ chatLastSeenIds = {}
  /\ chatPollBoostUntil = 0
  /\ chatLastPollAppended = 0
  /\ chatLastPollError = FALSE
  /\ polls = [i \in 1..MaxPolls |-> IdlePoll]
  /\ tabChat = IdleCall
  /\ tabOther = "idle"
  /\ sw = IdleCall
  /\ snd = IdleSend
  /\ older = IdleOlder
  /\ list = NoList
  /\ pollMark = NoMark
  /\ budget = [clicks |-> clicks, msgs |-> msgs]

Init == \E k \in {NoSession, "s1"} : Start(SmallLog, SmallCfg(k, FALSE), MaxClicks, MaxMsgs)

\* the same start with one message fewer for the remote logs to gain
InitQuiet == \E k \in {NoSession, "s1"} : Start(SmallLog, SmallCfg(k, FALSE), MaxClicks, MaxMsgs - 1)

\* a session with a long history: more than the window holds
BigMessage(i) == [id |-> i, ts |-> i, role |-> IF i % 2 = 1 THEN "agent" ELSE "user", sk |-> "s1", text |-> "hi"]

BigLog == [s \in Sessions |-> IF s = "s1" THEN [i \in 1..BigLen |-> BigMessage(i)] ELSE <<>>]

BigCfg ==
  [session_key |-> "s1", chat_history |-> LastN(BigLog["s1"], CHAT_HISTORY_PAGE_LIMIT),
   has_older |-> TRUE, debug |-> FALSE]

BigStart(clicks) == Start(BigLog, BigCfg, clicks, MaxMsgs)

InitBig == BigStart(MaxClicks)

InitPage == BigStart(MaxClicks + 2)

\* the short history opened with or without ?debug=1, or the long history
InitDebug ==
  \/ \E k \in {NoSession, "s1"}, debug \in BOOLEAN : Start(SmallLog, SmallCfg(k, debug), MaxClicks - 1, MaxMsgs)
  \/ BigStart(MaxClicks - 2)

\* ---- loadChatLatest ----

\* the call: the RPC carries the session key current at the call
LatestCall(pc) == [pc |-> pc, session |-> chatSessionKey, callLen |-> LogLen(chatSessionKey)]

\* the possible responses to a call made when the log held h.callLen messages
LatestLens(h) == h.callLen..LogLen(h.session)

\* the continuation after the await: lines 498-501, or the catch
LatestApply(h, outcome, n) ==
  IF outcome = "error" \/ h.session \notin Sessions
  THEN UNCHANGED windowVars
  ELSE LET resp == IF outcome = "ok" THEN QueryLatest(Prefix(h.session, n), CHAT_HISTORY_PAGE_LIMIT)
                   ELSE [items |-> <<>>, has_older |-> FALSE]
       IN  /\ chatItems' = resp.items
           /\ chatHasOlder' = resp.has_older
           /\ chatLastSeenIds' = syncChatSeenIds(chatLastSeenIds, resp.items)

\* ---- switchTab ----

\* loadChatFromConfig with the debug toggle forcing the flag for any window
configHasOlderForced(c, items) == c.has_older \/ c.debug

\* loadChatFromConfig, lines 342-346: the flag of the rendered page, forced to true
\* under ?debug=1 when the window is not empty
configHasOlder(c, items) == c.has_older \/ (c.debug /\ Len(items) >= 1)

\* switchTab('chat') up to its first await: loadChatFromConfig, refreshSessions
TabChatClick ==
  /\ tabChat.pc = "idle" /\ MayClick
  /\ tab' = "chat"
  /\ chatItems' = cfg.chat_history
  /\ chatHasOlder' = configHasOlder(cfg, cfg.chat_history)
  /\ chatSessionKey' = cfg.session_key
  /\ chatLastSeenIds' = syncChatSeenIds(chatLastSeenIds, cfg.chat_history)
  /\ tabChat' = [IdleCall EXCEPT !.pc = "sessions"]
  /\ UNCHANGED <<remoteVars, pollVars, chatLoadingOlder, polls, tabOther, sw, snd, older, pollMark>>
  /\ budget' = [budget EXCEPT !.clicks = @ - 1]
  /\ UNCHANGED list

\* refreshSessions has returned (its failure is caught); loadChatLatest is called
TabChatSessions ==
  /\ tabChat.pc = "sessions"
  /\ tabChat' = LatestCall("latest")
  /\ UNCHANGED <<remoteVars, tab, windowVars, pollVars, chatLoadingOlder, chatSessionKey,
                 polls, tabOther, sw, snd, older, pollMark>>
  /\ UNCHANGED budget
  /\ UNCHANGED list

\* loadChatLatest has returned; refreshTokenUsage is awaited
TabChatLatest ==
  /\ tabChat.pc = "latest"
  /\ \E outcome \in Outcomes, n \in LatestLens(tabChat) : LatestApply(tabChat, outcome, n)
  /\ tabChat' = [IdleCall EXCEPT !.pc = "usage"]
  /\ UNCHANGED <<remoteVars, tab, pollVars, chatLoadingOlder, chatSessionKey,
                 polls, tabOther, sw, snd, older, pollMark>>
  /\ UNCHANGED budget
  /\ list' = renderChat(list, chatItems', "auto", tab = "chat")

\* startChatPolling
TabChatUsage ==
  /\ tabChat.pc = "usage"
  /\ tabChat' = IdleCall
  /\ chatPollingActive' = TRUE
  /\ chatPollTimer' = IF chatPollingActive THEN chatPollTimer
                      ELSE scheduleChatPoll(TRUE, chatPollTimer, CHAT_POLL_INITIAL_MS)
  /\ UNCHANGED <<remoteVars, tab, windowVars, chatPollBoostUntil, chatLastPollAppended,
                 chatLastPollError, chatLoadingOlder, chatSessionKey,
                 polls, tabOther, sw, snd, older, pollMark>>
  /\ UNCHANGED budget
  /\ UNCHANGED list

\* switchTab of another view up to its first await
TabOtherClick ==
  /\ tabOther = "idle" /\ MayClick
  /\ tab' = "other"
  /\ tabOther' = "wait"
  /\ UNCHANGED <<remoteVars, windowVars, pollVars, chatLoadingOlder, chatSessionKey,
                 polls, tabChat, sw, snd, older, pollMark>>
  /\ budget' = [budget EXCEPT !.clicks = @ - 1]
  /\ list' = hideList(list)

\* the other view's setup has returned: stopChatPolling
TabOtherDone ==
  /\ tabOther = "wait"
  /\ tabOther' = "idle"
  /\ chatPollingActive' = FALSE
  /\ chatPollTimer' = IF chatPollTimer.handle
                      THEN [NoTimer EXCEPT !.pending = clearTimeout(chatPollTimer).pending]
                      ELSE chatPollTimer
  /\ UNCHANGED <<remoteVars, tab, windowVars, chatPollBoostUntil, chatLastPollAppended,
                 chatLastPollError, chatLoadingOlder, chatSessionKey,
                 polls, tabChat, sw, snd, older, pollMark>>
  /\ UNCHANGED budget
  /\ UNCHANGED list

\* ---- sessionSel.onchange ----

SessionChange ==
  /\ tab = "chat" /\ sw.pc = "idle" /\ MayClick
  /\ \E k \in Sessions \ {chatSessionKey} :
       /\ chatSessionKey' = k
       /\ sw' = [pc |-> "latest", session |-> k, callLen |-> LogLen(k)]
  /\ UNCHANGED <<remoteVars, tab, windowVars, pollVars, chatLoadingOlder,
                 polls, tabChat, tabOther, snd, older, pollMark>>
  /\ budget' = [budget EXCEPT !.clicks = @ - 1]
  /\ UNCHANGED list

SwitchLatest ==
  /\ sw.pc = "latest"
  /\ \E outcome \in Outcomes, n \in LatestLens(sw) : LatestApply(sw, outcome, n)
  /\ sw' = [IdleCall EXCEPT !.pc = "usage"]
  /\ UNCHANGED <<remoteVars, tab, pollVars, chatLoadingOlder, chatSessionKey,
                 polls, tabChat, tabOther, snd, older, pollMark>>
  /\ UNCHANGED budget
  /\ list' = renderChat(list, chatItems', "auto", tab = "chat")

SwitchUsage ==
  /\ sw.pc = "usage"
  /\ sw' = IdleCall
  /\ chatPollTimer' = scheduleChatPoll(chatPollingActive, chatPollTimer, CHAT_POLL_INITIAL_MS)
  /\ UNCHANGED <<remoteVars, tab, windowVars, chatPollingActive, chatPollBoostUntil,
                 chatLastPollAppended, chatLastPollError, chatLoadingOlder, chatSessionKey,
                 polls, tabChat, tabOther, snd, older, pollMark>>
  /\ UNCHANGED budget
  /\ UNCHANGED list

\* ---- composerSend.onclick ----

SendClick ==
  /\ tab = "chat" /\ snd.pc = "idle" /\ MayClick
  /\ snd' = [IdleSend EXCEPT !.pc = "append", !.session = chatSessionKey, !.appends = 1]
  /\ UNCHANGED <<remoteVars, tab, windowVars, pollVars, chatLoadingOlder, chatSessionKey,
                 polls, tabChat, tabOther, sw, older, pollMark>>
  /\ budget' = [budget EXCEPT !.clicks = @ - 1]
  /\ UNCHANGED list

\* a handler that calls chat_append again when the call failed
afterAppendRetry(stored) == IF stored THEN "latest" ELSE "append"

\* line 3604: "try{ await callService(chat_append) } catch(e){}", then loadChatLatest
afterAppend(stored) == "latest"

\* chat_append has returned or failed (the failure is swallowed); loadChatLatest is called
SendAppend ==
  /\ snd.pc = "append"
  /\ \E stored \in BOOLEAN :
       /\ IF stored
          THEN /\ snd.session \in Sessions
               /\ budget.msgs > 0
               /\ log' = [log EXCEPT ![snd.session] = Append(@, NewMessage(@, snd.session, UserKind))]
               /\ budget' = [budget EXCEPT !.msgs = @ - 1]
          ELSE UNCHANGED <<log, budget>>
       /\ snd' = IF afterAppend(stored) = "append"
                 THEN [snd EXCEPT !.appends = @ + 1]
                 ELSE [pc |-> "latest", session |-> chatSessionKey,
                       callLen |-> IF chatSessionKey \in Sessions THEN Len(log'[chatSessionKey]) ELSE 0,
                       appends |-> snd.appends, stored |-> stored]
  /\ UNCHANGED <<now, cfg, tab, windowVars, pollVars, chatLoadingOlder, chatSessionKey,
                 polls, tabChat, tabOther, sw, older, pollMark>>
  /\ UNCHANGED list

\* loadChatLatest has returned: boostChatPolling, scheduleChatPoll, then chat_send is awaited
SendLatest ==
  /\ snd.pc = "latest"
  /\ \E outcome \in Outcomes, n \in LatestLens(snd) : LatestApply(snd, outcome, n)
  /\ chatPollBoostUntil' = now + CHAT_POLL_BOOST_WINDOW_MS
  /\ chatPollTimer' = scheduleChatPoll(chatPollingActive, chatPollTimer, CHAT_POLL_INITIAL_MS)
  /\ snd' = [snd EXCEPT !.pc = "send", !.session = NoSession, !.callLen = 0]
  /\ UNCHANGED <<remoteVars, tab, chatPollingActive, chatLastPollAppended, chatLastPollError,
                 chatLoadingOlder, chatSessionKey, polls, tabChat, tabOther, sw, older, pollMark>>
  /\ UNCHANGED budget
  /\ list' = renderChat(list, chatItems', "auto", tab = "chat")

\* chat_send and the closing refreshTokenUsage have returned
SendDone ==
  /\ snd.pc = "send"
  /\ snd' = IdleSend
  /\ UNCHANGED <<remoteVars, tab, windowVars, pollVars, chatLoadingOlder, chatSessionKey,
                 polls, tabChat, tabOther, sw, older, pollMark>>
  /\ UNCHANGED budget
  /\ UNCHANGED list

\* ---- loadOlderChat ----

\* loadOlderChat without the guard of line 508
loadOlderUnguarded(loading, items) == IF FirstId(items) = 0 THEN "noanchor" ELSE "called"

\* loadOlderChat without the anchor check of line 515
loadOlderUnanchored(loading, items) == IF loading THEN "busy" ELSE "called"

\* lines 508-520: what a call of loadOlderChat does before its await
loadOlderKind(loading, items) ==
  IF loading THEN "busy" ELSE IF FirstId(items) = 0 THEN "noanchor" ELSE "called"

\* the synchronous part: the single-flight guard, the anchor, the call
LoadOlderClick ==
  /\ tab = "chat" /\ budget.clicks > 0
  /\ chatLoadingOlder \/ MayStart
  /\ LET kind == loadOlderKind(chatLoadingOlder, chatItems)
     IN  IF kind = "busy"
         THEN /\ older' = [older EXCEPT !.last = "busy"]
              /\ UNCHANGED <<chatHasOlder, chatLoadingOlder>>
         ELSE IF kind = "noanchor"
         THEN /\ chatHasOlder' = FALSE
              /\ older' = [older EXCEPT !.last = "noanchor"]
              /\ UNCHANGED chatLoadingOlder
         ELSE /\ chatLoadingOlder' = TRUE
              /\ older' = [pc |-> "page", session |-> chatSessionKey, beforeId |-> FirstId(chatItems),
                           callLen |-> LogLen(chatSessionKey),
                           last |-> IF older.last = "failed" THEN "retried" ELSE "called"]
              /\ UNCHANGED chatHasOlder
  /\ UNCHANGED <<remoteVars, tab, chatItems, chatLastSeenIds, pollVars, chatSessionKey,
                 polls, tabChat, tabOther, sw, snd, pollMark>>
  /\ budget' = [budget EXCEPT !.clicks = @ - 1]
  /\ list' = IF loadOlderKind(chatLoadingOlder, chatItems) = "busy" THEN list
              ELSE renderChat(list, chatItems, "preserve", tab = "chat")

\* a finally clause that leaves the flag as it is
olderFinallyKeeps(loading) == loading

\* line 545: the value the finally clause gives chatLoadingOlder
olderFinally(loading) == FALSE

\* the page has returned or failed: lines 529-547
LoadOlderReturn ==
  /\ older.pc = "page"
  /\ \E outcome \in Outcomes, n \in older.callLen..LogLen(older.session) :
       IF outcome = "error" \/ older.session \notin Sessions
       THEN /\ UNCHANGED windowVars
            /\ older' = [IdleOlder EXCEPT !.last = "failed"]
       ELSE LET resp == IF outcome = "ok"
                        THEN QueryBefore(Prefix(older.session, n), older.beforeId, CHAT_HISTORY_PAGE_LIMIT)
                        ELSE [items |-> <<>>, has_older |-> FALSE]
            IN  /\ chatItems' = PrependOlder(chatItems, resp.items)
                /\ chatHasOlder' = resp.has_older
                /\ chatLastSeenIds' = syncChatSeenIds(chatLastSeenIds, chatItems')
                /\ older' = [IdleOlder EXCEPT !.last = "applied"]
  /\ chatLoadingOlder' = olderFinally(chatLoadingOlder)
  /\ UNCHANGED <<remoteVars, tab, pollVars, chatSessionKey, polls, tabChat, tabOther, sw, snd, pollMark>>
  /\ UNCHANGED budget
  /\ list' = renderChat(list, chatItems', "preserve", tab = "chat")

\* ---- pollSessionsHistory ----

FreeSlot == CHOOSE i \in 1..MaxPolls : polls[i].pc = "idle" /\ \A j \in 1..MaxPolls : polls[j].pc = "idle" => i <= j

\* the tail of a cycle without its reschedule
PollTailHalts(appended) ==
  /\ chatPollBoostUntil' = IF appended # 0 THEN now + CHAT_POLL_BOOST_WINDOW_MS ELSE chatPollBoostUntil
  /\ chatPollTimer' = chatPollTimer

\* the tail choosing the delay from the boost deadline the cycle found
PollTailStaleBoost(appended) ==
  LET boost == IF appended # 0 THEN now + CHAT_POLL_BOOST_WINDOW_MS ELSE chatPollBoostUntil
      delay == IF now < chatPollBoostUntil THEN CHAT_POLL_FAST_MS ELSE CHAT_POLL_INTERVAL_MS
  IN  /\ chatPollBoostUntil' = boost
      /\ chatPollTimer' = scheduleChatPoll(chatPollingActive, chatPollTimer, delay)

\* the tail extending the boost at the end of every cycle
PollTailAlwaysBoosts(appended) ==
  LET boost == now + CHAT_POLL_BOOST_WINDOW_MS
      delay == IF now < boost THEN CHAT_POLL_FAST_MS ELSE CHAT_POLL_INTERVAL_MS
  IN  /\ chatPollBoostUntil' = boost
      /\ chatPollTimer' = scheduleChatPoll(chatPollingActive, chatPollTimer, delay)

\* lines 662-666: boost on a counted append, choose the delay, reschedule
PollTail(appended) ==
  LET boost == IF appended # 0 THEN now + CHAT_POLL_BOOST_WINDOW_MS ELSE chatPollBoostUntil
      delay == IF now < boost THEN CHAT_POLL_FAST_MS ELSE CHAT_POLL_INTERVAL_MS
  IN  /\ chatPollBoostUntil' = boost
      /\ chatPollTimer' = scheduleChatPoll(chatPollingActive, chatPollTimer, delay)

\* a cycle without session choosing its delay as the tail of a cycle does
noSessionDelayBoosted(t, boostUntil) ==
  IF t < boostUntil THEN CHAT_POLL_FAST_MS ELSE CHAT_POLL_INTERVAL_MS

\* line 600: the delay after a cycle without session
noSessionDelay(t, boostUntil) == CHAT_POLL_INTERVAL_MS

\* the timer fires: pollSessionsHistory up to its first await (chat_poll)
TimerFire ==
  /\ chatPollTimer.live
  /\ IF ~chatPollingActive
     THEN /\ chatPollTimer' = timerFired(chatPollTimer)
          /\ UNCHANGED <<polls, chatLastPollAppended, chatLastPollError>>
     ELSE IF chatSessionKey = NoSession
     THEN /\ chatLastPollAppended' = 0
          /\ chatLastPollError' = FALSE
          /\ chatPollTimer' = scheduleChatPoll(chatPollingActive, timerFired(chatPollTimer),
                                               noSessionDelay(now, chatPollBoostUntil))
          /\ UNCHANGED polls
     ELSE /\ PollsInFlight # 1..MaxPolls
          /\ MayStart
          /\ polls' = [polls EXCEPT ![FreeSlot] =
                         [pc |-> "refresh", session |-> chatSessionKey,
                          seenBefore |-> chatLastSeenIds, afterTs |-> 0, callLen |-> 0,
                          mark |-> pollMark]]
          /\ chatPollTimer' = timerFired(chatPollTimer)
          /\ UNCHANGED <<chatLastPollAppended, chatLastPollError>>
  /\ UNCHANGED <<remoteVars, tab, windowVars, chatPollingActive, chatPollBoostUntil,
                 chatLoadingOlder, chatSessionKey, handlerVars, pollMark>>
  /\ UNCHANGED budget
  /\ UNCHANGED list

\* chat_poll has failed: the catch and the reschedule
PollRefreshFails(i) ==
  /\ polls[i].pc = "refresh"
  /\ polls' = [polls EXCEPT ![i] = IdlePoll]
  /\ chatLastPollError' = TRUE
  /\ chatLastPollAppended' = 0
  /\ PollTail(0)
  /\ UNCHANGED <<remoteVars, tab, windowVars, chatPollingActive, chatLoadingOlder,
                 chatSessionKey, handlerVars, pollMark>>
  /\ UNCHANGED budget
  /\ UNCHANGED list

\* chat_poll has returned: chat_history_delta is called with after_ts = maxChatTs()
PollRefreshWith(i, marking) ==
  /\ polls[i].pc = "refresh"
  /\ polls' = [polls EXCEPT ![i].pc = "delta", ![i].afterTs = maxChatTs(chatItems),
                            ![i].callLen = LogLen(polls[i].session)]
  /\ chatLastPollError' = FALSE
  /\ pollMark' = IF marking
                 THEN [pollMark EXCEPT !.sent = polls[i].session, !.afterTs = maxChatTs(chatItems)]
                 ELSE pollMark
  /\ UNCHANGED <<chatLastPollAppended, chatPollBoostUntil, chatPollTimer>>
  /\ UNCHANGED <<remoteVars, tab, windowVars, chatPollingActive, chatLoadingOlder,
                 chatSessionKey, handlerVars>>
  /\ UNCHANGED budget
  /\ UNCHANGED list

PollRefreshOk(i) == PollRefreshWith(i, FALSE)

PollRefreshReturn(i) == PollRefreshOk(i) \/ PollRefreshFails(i)

\* the same step, recording the after_ts the cycle sends
PollRefreshSent(i) == PollRefreshWith(i, TRUE) \/ PollRefreshFails(i)

\* the batch served from the first n messages of the log
DeltaBatch(p, outcome, n) ==
  IF outcome # "ok" THEN <<>>
  ELSE IF p.afterTs = 0 THEN QueryLatest(Prefix(p.session, n), CHAT_DELTA_LIMIT).items
  ELSE QueryAfter(Prefix(p.session, n), p.afterTs, CHAT_DELTA_LIMIT).items

\* chat_history_delta has failed: the catch and the reschedule
PollDeltaFails(i) ==
  /\ polls[i].pc = "delta"
  /\ chatLastPollError' = TRUE
  /\ chatLastPollAppended' = 0
  /\ PollTail(0)
  /\ polls' = [polls EXCEPT ![i] = IdlePoll]
  /\ UNCHANGED <<windowVars, pollMark>>
  /\ UNCHANGED <<remoteVars, tab, chatPollingActive, chatLoadingOlder, chatSessionKey, handlerVars>>
  /\ UNCHANGED budget
  /\ UNCHANGED list

\* chat_history_delta has returned with the given outcome: merge, count, reschedule
PollDeltaWith(i, marking, outcome) ==
  /\ polls[i].pc = "delta"
  /\ \E n \in polls[i].callLen..LogLen(polls[i].session) :
       LET newer == DeltaBatch(polls[i], outcome, n)
           counted == CountAppended(polls[i].seenBefore, newer)
       IN  /\ chatItems' = MergeNewer(chatItems, newer)
           /\ chatLastSeenIds' = counted.seen
           /\ chatLastPollAppended' = counted.count
           /\ PollTail(counted.count)
           /\ pollMark' = IF marking /\ outcome = "ok"
                          THEN [pollMark EXCEPT !.session = polls[i].session, !.len = n]
                          ELSE pollMark
           /\ UNCHANGED <<chatHasOlder, chatLastPollError>>
  /\ polls' = [polls EXCEPT ![i] = IdlePoll]
  /\ UNCHANGED <<remoteVars, tab, chatPollingActive, chatLoadingOlder, chatSessionKey, handlerVars>>
  /\ UNCHANGED budget
  /\ list' = renderChat(list, chatItems', "preserve", tab = "chat")

PollDeltaApplies(i, marking) == \E outcome \in Outcomes \ {"error"} : PollDeltaWith(i, marking, outcome)

PollDeltaBody(i, marking) == PollDeltaApplies(i, marking) \/ PollDeltaFails(i)

PollDeltaReturn(i) == PollDeltaBody(i, FALSE)

\* the same step, recording which part of the log the completed poll was served
PollDeltaMarked(i) == PollDeltaBody(i, TRUE)

\* ---- environment ----

\* the remote log of a session gains a message (an agent reply, another client)
ServerAppend ==
  /\ budget.msgs > 0
  /\ \E s \in Sessions, kind \in MsgKinds :
       log' = [log EXCEPT ![s] = Append(@, NewMessage(@, s, kind))]
  /\ budget' = [budget EXCEPT !.msgs = @ - 1]
  /\ UNCHANGED <<now, cfg, tab, windowVars, pollVars, chatLoadingOlder, chatSessionKey,
                 polls, handlerVars, pollMark>>
  /\ UNCHANGED list

\* the remote store stamps its last message of a session again (the message is
\* updated in place: same id, later timestamp)
ServerRestamp ==
  /\ budget.msgs > 0
  /\ \E s \in Sessions :
       /\ Len(log[s]) > 0
       /\ log' = [log EXCEPT ![s][Len(log[s])].ts = @ + 1]
  /\ budget' = [budget EXCEPT !.msgs = @ - 1]
  /\ UNCHANGED <<now, cfg, tab, windowVars, pollVars, chatLoadingOlder, chatSessionKey,
                 polls, handlerVars, pollMark>>
  /\ UNCHANGED list

Tick ==
  /\ now < TickMs * (1 + MaxTicks)
  /\ now' = now + TickMs
  /\ UNCHANGED <<log, cfg, tab, windowVars, pollVars, chatLoadingOlder, chatSessionKey,
                 polls, handlerVars, pollMark>>
  /\ UNCHANGED budget
  /\ UNCHANGED list

Next ==
  \/ TabChatClick \/ TabChatSessions \/ TabChatLatest \/ TabChatUsage
  \/ TabOtherClick \/ TabOtherDone
  \/ SessionChange \/ SwitchLatest \/ SwitchUsage
  \/ SendClick \/ SendAppend \/ SendLatest \/ SendDone
  \/ LoadOlderClick \/ LoadOlderReturn
  \/ TimerFire
  \/ \E i \in 1..MaxPolls : PollRefreshReturn(i)
  \/ \E i \in 1..MaxPolls : PollDeltaReturn(i)
  \/ ServerAppend

Spec == Init /\ [][Next]_vars

\* the same program with the history of completed polls recorded
NextCount ==
  \/ TabChatClick \/ TabChatSessions \/ TabChatLatest \/ TabChatUsage
  \/ TabOtherClick \/ TabOtherDone
  \/ SessionChange \/ SwitchLatest \/ SwitchUsage
  \/ SendClick \/ SendAppend \/ SendLatest \/ SendDone
  \/ LoadOlderClick \/ LoadOlderReturn
  \/ TimerFire
  \/ \E i \in 1..MaxPolls : PollRefreshReturn(i)
  \/ \E i \in 1..MaxPolls : PollDeltaMarked(i)
  \/ ServerAppend

SpecCount == Init /\ [][NextCount]_vars

\* the chat view and the poll loop with the history of completed polls recorded,
\* while the remote logs grow
NextMerge ==
  \/ TabChatClick \/ TabChatSessions \/ TabChatLatest \/ TabChatUsage
  \/ TimerFire
  \/ \E i \in 1..MaxPolls : PollRefreshReturn(i)
  \/ \E i \in 1..MaxPolls : PollDeltaMarked(i)
  \/ ServerAppend

InitMerge == \E k \in {NoSession, "s1"} : Start(SmallLog, SmallCfg(k, FALSE), MaxClicks - 1, MaxMsgs)

SpecMerge == InitMerge /\ [][NextMerge]_vars

\* the same with a remote store that also updates messages in place
NextCursor == NextMerge \/ ServerRestamp

SpecCursor == InitMerge /\ [][NextCursor]_vars

\* one session with a long history that gains nothing: the chat view, pagination, the poll loop
NextPage ==
  \/ TabChatClick \/ TabChatSessions \/ TabChatLatest \/ TabChatUsage
  \/ LoadOlderClick \/ LoadOlderReturn
  \/ TimerFire
  \/ \E i \in 1..MaxPolls : PollRefreshReturn(i)
  \/ \E i \in 1..MaxPolls : PollDeltaReturn(i)

SpecPage == InitPage /\ [][NextPage]_vars

\* the same handlers from every start, the ?debug=1 page included, while the remote log grows
NextDebug == NextPage \/ ServerAppend

SpecDebug == InitDebug /\ [][NextDebug]_vars

\* the chat view over the long history, before the first poll timer fires
NextBig ==
  \/ TabChatClick \/ TabChatSessions \/ TabChatLatest \/ TabChatUsage
  \/ SessionChange \/ SwitchLatest \/ SwitchUsage
  \/ SendClick \/ SendAppend \/ SendLatest \/ SendDone
  \/ LoadOlderClick \/ LoadOlderReturn
  \/ ServerAppend

SpecBig == InitBig /\ [][NextBig]_vars

\* one session with a long history: the chat view, local send and the poll loop
NextStale ==
  \/ TabChatClick \/ TabChatSessions \/ TabChatLatest \/ TabChatUsage
  \/ SendClick \/ SendAppend \/ SendLatest \/ SendDone
  \/ TimerFire
  \/ \E i \in 1..MaxPolls : PollRefreshReturn(i)
  \/ \E i \in 1..MaxPolls : PollDeltaReturn(i)

SpecStale == InitBig /\ [][NextStale]_vars

\* the poll loop with everything that starts, stops or reschedules it
NextLoop ==
  \/ TabChatClick \/ TabChatSessions \/ TabChatLatest \/ TabChatUsage
  \/ TabOtherClick \/ TabOtherDone
  \/ SessionChange \/ SwitchLatest \/ SwitchUsage
  \/ SendClick \/ SendAppend \/ SendLatest \/ SendDone
  \/ TimerFire
  \/ \E i \in 1..MaxPolls : PollRefreshReturn(i)
  \/ \E i \in 1..MaxPolls : PollDeltaReturn(i)

SpecLoop == InitQuiet /\ [][NextLoop]_vars

\* the chat view without the poll loop: fetches, session switch, send, pagination
NextView ==
  \/ TabChatClick \/ TabChatSessions \/ TabChatLatest \/ TabChatUsage
  \/ SessionChange \/ SwitchLatest \/ SwitchUsage
  \/ SendClick \/ SendAppend \/ SendLatest \/ SendDone
  \/ LoadOlderClick \/ LoadOlderReturn
  \/ ServerAppend

SpecView == Init /\ [][NextView]_vars

\* the same program with the clock advancing
NextTime == Next \/ Tick

\* the chat view and the poll loop while the clock advances and the remote logs grow
NextPace ==
  \/ TabChatClick \/ TabChatSessions \/ TabChatLatest \/ TabChatUsage
  \/ TimerFire
  \/ \E i \in 1..MaxPolls : PollRefreshReturn(i)
  \/ \E i \in 1..MaxPolls : PollDeltaReturn(i)
  \/ ServerAppend
  \/ Tick

SpecPace == InitMerge /\ [][NextPace]_vars

\* the same with the composer sending
NextBoost == NextPace \/ SendClick \/ SendAppend \/ SendLatest \/ SendDone

SpecBoost == InitMerge /\ [][NextBoost]_vars

\* the chat view of one session, the composer and the poll loop with the after_ts
\* of every delta request recorded, while the remote logs grow
NextSent ==
  \/ TabChatClick \/ TabChatSessions \/ TabChatLatest \/ TabChatUsage
  \/ SendClick \/ SendAppend \/ SendLatest \/ SendDone
  \/ TimerFire
  \/ \E i \in 1..MaxPolls : PollRefreshSent(i)
  \/ \E i \in 1..MaxPolls : PollDeltaReturn(i)
  \/ ServerAppend

InitSent == Start(SmallLog, SmallCfg("s1", FALSE), MaxClicks - 1, MaxMsgs)

SpecSent == InitSent /\ [][NextSent]_vars

SpecTime == Init /\ [][NextTime]_vars

\* the handlers of NextLoop with every timer firing and every RPC returning or failing
TabReturns == TabChatSessions \/ TabChatLatest \/ TabChatUsage
SwitchReturns == SwitchLatest \/ SwitchUsage
SendReturns == SendAppend \/ SendLatest \/ SendDone
PollReturns(i) == PollRefreshReturn(i) \/ PollDeltaReturn(i)

SpecLive ==
  /\ SpecLoop
  /\ WF_vars(TimerFire)
  /\ WF_vars(TabReturns) /\ WF_vars(TabOtherDone) /\ WF_vars(SwitchReturns) /\ WF_vars(SendReturns)
  /\ \A i \in 1..MaxPolls : WF_vars(PollReturns(i))

\* the user scrolls the list: to the top, to the bottom, or to a few pixels, half a
\* row, a row or a page above the bottom
ScrollGaps == {0, 3, RowHeight \div 2, RowHeight + 3, ClientHeight}

ScrollStops(l) ==
  {0} \cup {ClampScroll(scrollHeight(l.rows, TRUE) - ClientHeight - gap, l.rows, TRUE) : gap \in ScrollGaps}

UserScroll ==
  /\ tab = "chat"
  /\ \E top \in ScrollStops(list) : list' = [list EXCEPT !.scrollTop = top]
  /\ UNCHANGED <<remoteVars, tab, windowVars, pollVars, chatLoadingOlder, chatSessionKey,
                 polls, handlerVars, pollMark, budget>>

\* one session with a long history: the chat view, the poll loop, the remote log
\* growing and the user scrolling
NextScroll ==
  \/ TabChatClick \/ TabChatSessions \/ TabChatLatest \/ TabChatUsage
  \/ TimerFire
  \/ \E i \in 1..MaxPolls : PollRefreshReturn(i)
  \/ \E i \in 1..MaxPolls : PollDeltaReturn(i)
  \/ ServerAppend
  \/ UserScroll

SpecScroll == InitBig /\ [][NextScroll]_vars

\* a session with a history of len messages and the page rendered for it
MidLog(len) == [s \in Sessions |-> IF s = "s1" THEN [i \in 1..len |-> BigMessage(i)] ELSE <<>>]

MidCfg(len) ==
  [session_key |-> "s1", chat_history |-> LastN(MidLog(len)["s1"], CHAT_HISTORY_PAGE_LIMIT),
   has_older |-> len > CHAT_HISTORY_PAGE_LIMIT, debug |-> FALSE]

MidStart(len) == Start(MidLog(len), MidCfg(len), MaxClicks - 1, MaxMsgs)

\* the list over a history that fits one page and overflows the viewport
InitRender == MidStart(ShortLen)

SpecRender == InitRender /\ [][NextScroll]_vars

\* the chat view, pagination and the poll loop over a history a little longer
\* than one page, while it grows
InitBoth == MidStart(MidLen)

\* the same history with one message older than the first page stored without an id
GapLog == [MidLog(MidLen) EXCEPT !["s1"][2].id = 0]

InitGap == Start(GapLog, MidCfg(MidLen), MaxClicks - 1, MaxMsgs)

SpecGap == InitGap /\ [][NextPage]_vars

SpecBoth == InitBoth /\ [][NextDebug]_vars

\* the same with the composer sending: every handler that writes the window of one session
NextWindow == NextDebug \/ SendClick \/ SendAppend \/ SendLatest \/ SendDone

SpecWindow == InitBoth /\ [][NextWindow]_vars

\* ---- properties ----

PollApplies(i) == polls[i].pc = "delta" /\ polls'[i].pc = "idle"
PageApplies == older.pc = "page" /\ older'.pc = "idle"

\* C1: a poll cycle whose session key is no longer the current one when its delta
\* response arrives leaves the window, seenKeys and lastAppendedCount unchanged.
C1_StalePollDiscarded ==
  [][\A i \in 1..MaxPolls :
       (PollApplies(i) /\ polls[i].session # chatSessionKey)
         => /\ chatItems' = chatItems
            /\ chatLastSeenIds' = chatLastSeenIds
            /\ chatLastPollAppended' = chatLastPollAppended]_vars

\* C2: a page requested under session key S is not prepended, and hasOlder is not
\* changed, when the session key differs from S at the arrival of the response.
C2_StalePageDiscarded ==
  [][(PageApplies /\ older.session # chatSessionKey)
       => chatItems' = chatItems /\ chatHasOlder' = chatHasOlder]_vars

\* C3: the window never holds more than MAX_WINDOW = 200 items.
C3_WindowBounded == Len(chatItems) <= CHAT_UI_MAX_ITEMS

\* C4: the window is ordered non-decreasing by timestamp in every reachable state.
C4_WindowOrdered == \A i \in 1..(Len(chatItems) - 1) : chatItems[i].ts <= chatItems[i + 1].ts

NoDupKeys(items) == \A a, b \in 1..Len(items) : chatItemKey(items[a]) = chatItemKey(items[b]) => a = b

\* C5: for every batch a pending delta query can return, merging it into the window
\* twice gives the window that merging it once gives, and that window holds no two
\* items with the same dedupe key.
C5_MergeIdempotent ==
  \A i \in 1..MaxPolls : polls[i].pc = "delta" =>
    \A n \in polls[i].callLen..LogLen(polls[i].session) :
      LET batch == DeltaBatch(polls[i], "ok", n)
          once == MergeNewer(chatItems, batch)
      IN  MergeNewer(once, batch) = once /\ NoDupKeys(once)

\* C6: at most one poll cycle is in flight at any time.
C6_OnePollInFlight == Cardinality(PollsInFlight) <= 1

\* C7: no step of loadOlderChat and no step of the send handler changes seenKeys.
C7_SeenOnlyByPoller ==
  [][(older' # older \/ snd' # snd) => chatLastSeenIds' = chatLastSeenIds]_vars

\* number of agent messages among L[from..to]
AgentsBetween(L, from, to) == Cardinality({j \in from..to : j <= Len(L) /\ L[j].role = "agent"})

\* C8: when a poll of a session completes, and the poll completed last before it
\* began was of the same session and no poll completed since, lastAppendedCount is
\* the number of agent messages the log gained between the two responses.
C8_AppendedCountAccurate ==
  [][\A i \in 1..MaxPolls :
       (PollApplies(i) /\ polls[i].mark = pollMark /\ pollMark.session = polls[i].session)
         => chatLastPollAppended' =
              AgentsBetween(log[polls[i].session], pollMark.len + 1, pollMark'.len)]_vars

\* C9: when the initial fetch of a session switch has returned or failed, the window
\* holds only messages of the new session and seenKeys only keys of the new session.
C9_SwitchClearsState ==
  [][(sw.pc = "latest" /\ sw'.pc = "usage")
       => /\ \A j \in 1..Len(chatItems') : chatItems'[j].sk = sw.session
          /\ chatLastSeenIds' \subseteq Keys(log[sw.session])]_vars

\* C10: replacing the session key cancels the pending poll timer, and the end of the
\* switch arms it with INITIAL_INTERVAL.
C10_SwitchRestartsTimer ==
  [][/\ (sw.pc = "idle" /\ sw'.pc # "idle") => ~chatPollTimer'.live
     /\ (sw.pc = "usage" /\ sw'.pc = "idle" /\ chatPollingActive)
          => chatPollTimer'.live /\ chatPollTimer'.delay = CHAT_POLL_INITIAL_MS]_vars

StopReturns == tabOther = "wait" /\ tabOther' = "idle"

\* C11: stopChatPolling leaves polling inactive and no timer pending; while polling
\* stays inactive no timer is armed and no poll cycle starts, also when a cycle that
\* was in flight completes; a stop in the stopped state changes nothing of the poller.
C11_StopIsFinal ==
  [][/\ StopReturns => (~chatPollingActive' /\ ~chatPollTimer'.live /\ ~chatPollTimer'.handle)
     /\ (~chatPollingActive /\ ~chatPollingActive')
          => (~chatPollTimer'.live /\ PollsInFlight' \subseteq PollsInFlight)
     /\ (StopReturns /\ ~chatPollingActive /\ ~chatPollTimer.handle)
          => (chatPollingActive' = chatPollingActive /\ chatPollTimer' = chatPollTimer
              /\ polls' = polls /\ windowVars' = windowVars)]_vars

\* polling was stopped while a poll cycle was awaiting its RPC
C11_Witness == ~chatPollingActive /\ ~chatPollTimer.handle /\ tabOther = "idle" /\ PollsInFlight # {}

PollFails(i) == PollRefreshFails(i) \/ PollDeltaFails(i)

\* C12 as stated: a cycle whose refresh or delta RPC fails records the error, sets
\* lastAppendedCount to 0, leaves the window and seenKeys as they are, and arms the
\* timer for the next cycle at the FAST or BASE interval.
C12_FailureReschedules ==
  [][\A i \in 1..MaxPolls : PollFails(i) =>
       /\ chatLastPollError' /\ chatLastPollAppended' = 0
       /\ windowVars' = windowVars
       /\ chatPollTimer'.live
       /\ chatPollTimer'.delay \in {CHAT_POLL_FAST_MS, CHAT_POLL_INTERVAL_MS}]_vars

\* C12 amended: the same, the timer being armed when polling is still active and
\* left unarmed when polling was stopped during the cycle.
C12_FailureContained ==
  [][\A i \in 1..MaxPolls : PollFails(i) =>
       /\ chatLastPollError' /\ chatLastPollAppended' = 0
       /\ windowVars' = windowVars
       /\ chatPollingActive =>
            (chatPollTimer'.live /\ chatPollTimer'.delay \in {CHAT_POLL_FAST_MS, CHAT_POLL_INTERVAL_MS})
       /\ ~chatPollingActive => ~chatPollTimer'.live]_vars

\* a failed cycle has recorded its error and armed the timer for the next one
C12_Witness ==
  chatLastPollError /\ chatLastPollAppended = 0 /\ chatPollingActive /\ chatPollTimer.live
  /\ chatPollTimer.delay = CHAT_POLL_INTERVAL_MS /\ chatItems # <<>>

\* a step of loadOlderChat's synchronous part (the click that is no other handler's)
OlderClicked == budget'.clicks = budget.clicks - 1 /\ UNCHANGED <<tabChat, tabOther, sw, snd>>

\* C13: loadingOlder is true exactly while a pagination RPC is pending, and a
\* loadOlder call made meanwhile issues no RPC and changes nothing: the pending
\* call, the window, hasOlder and loadingOlder stay as they are.
C13_SingleFlight ==
  /\ [](chatLoadingOlder <=> older.pc = "page")
  /\ [][(OlderClicked /\ chatLoadingOlder)
          => /\ older' = [older EXCEPT !.last = "busy"]
             /\ windowVars' = windowVars
             /\ chatLoadingOlder']_vars

\* a second loadOlder call was made while the first was pending
C13_Witness == older.pc = "page" /\ older.last = "busy" /\ chatLoadingOlder

\* C14: a failed pagination RPC resets loadingOlder and leaves the window and
\* hasOlder unchanged, and the next loadOlder call on a window that has an anchor
\* issues a new pagination RPC.
C14_FailureRetryable ==
  /\ [][(PageApplies /\ older'.last = "failed")
          => (~chatLoadingOlder' /\ chatItems' = chatItems /\ chatHasOlder' = chatHasOlder)]_vars
  /\ [][(OlderClicked /\ older.last = "failed" /\ FirstId(chatItems) # 0)
          => (older'.pc = "page" /\ older'.last = "retried" /\ older'.beforeId = FirstId(chatItems))]_vars

\* a pagination RPC was issued again after one had failed
C14_Witness == older.pc = "page" /\ older.last = "retried" /\ chatLoadingOlder

\* C15: loadOlder on a window without an item that has an id issues no RPC,
\* leaves the window unchanged and leaves hasOlder false.
C15_NoAnchor ==
  [][(OlderClicked /\ ~chatLoadingOlder /\ FirstId(chatItems) = 0)
       => /\ older'.pc = "idle" /\ older'.last = "noanchor"
          /\ ~chatLoadingOlder'
          /\ chatItems' = chatItems
          /\ ~chatHasOlder']_vars

\* loadOlder was called on a non-empty window in which no item has an id
C15_Witness == older.last = "noanchor" /\ older.pc = "idle" /\ chatItems # <<>> /\ FirstId(chatItems) = 0

\* C16: no step of loadOlderChat changes the after_ts the next poll would send.
C16_CursorIndependent ==
  [][(older' # older) => maxChatTs(chatItems') = maxChatTs(chatItems)]_vars

\* the flags a latest fetch of handler h can report; an answer without a flag reads as false
LatestFlags(h) ==
  {QueryLatest(Prefix(h.session, n), CHAT_HISTORY_PAGE_LIMIT).has_older : n \in LatestLens(h)} \cup {FALSE}

PageFlags ==
  {QueryBefore(Prefix(older.session, n), older.beforeId, CHAT_HISTORY_PAGE_LIMIT).has_older :
     n \in older.callLen..LogLen(older.session)} \cup {FALSE}

ConfigLoads == tabChat.pc = "idle" /\ tabChat'.pc = "sessions"
LatestReturns(h, hNext, after) == h.pc = "latest" /\ hNext.pc = after
NoAnchorClick == OlderClicked /\ ~chatLoadingOlder /\ FirstId(chatItems) = 0

\* the steps the claim allows to change hasOlder, each with the value it may set
FlagFromServer ==
  \/ LatestReturns(tabChat, tabChat', "usage") /\ chatHasOlder' \in LatestFlags(tabChat)
  \/ LatestReturns(sw, sw', "usage") /\ chatHasOlder' \in LatestFlags(sw)
  \/ LatestReturns(snd, snd', "send") /\ chatHasOlder' \in LatestFlags(snd)
  \/ PageApplies /\ chatHasOlder' \in PageFlags
  \/ NoAnchorClick /\ ~chatHasOlder'

\* C17 as stated: no step of a poll cycle changes hasOlder, and hasOlder changes
\* only to the flag the server reported with the page configuration, a latest
\* fetch or a pagination response, or to false by a loadOlder without anchor.
C17_HasOlderFromServer ==
  [][/\ (polls' # polls) => chatHasOlder' = chatHasOlder
     /\ (chatHasOlder' # chatHasOlder)
          => (FlagFromServer \/ (ConfigLoads /\ chatHasOlder' = cfg.has_older))]_vars

\* C17 amended: the same, loadChatFromConfig under ?debug=1 setting hasOlder to
\* true for a non-empty window whatever the server reported.
C17_HasOlderFromServerOrDebug ==
  [][/\ (polls' # polls) => chatHasOlder' = chatHasOlder
     /\ (chatHasOlder' # chatHasOlder)
          => (FlagFromServer
              \/ (ConfigLoads /\ chatHasOlder' = (cfg.has_older \/ (cfg.debug /\ chatItems' # <<>>))))
     /\ ConfigLoads => chatHasOlder' = (cfg.has_older \/ (cfg.debug /\ chatItems' # <<>>))]_vars

\* a poll has appended a new message to a full window, which lost its oldest
\* item, and hasOlder still is what the server last reported: false
C17_Witness ==
  /\ Len(chatItems) = CHAT_UI_MAX_ITEMS /\ chatItems[Len(chatItems)].id > BigLen
  /\ FirstId(chatItems) > BigLen - CHAT_UI_MAX_ITEMS + 1
  /\ chatLastPollAppended >= 1 /\ ~chatHasOlder

PureAppend(old, new) == Len(new) > Len(old) /\ SubSeq(new, 1, Len(old)) = old

\* C18: when the list shows the window, the user is scrolled up from the bottom and
\* a poll appends items at the end of the window and nothing above, the render of
\* that poll leaves the scroll offset as it was.
C18_ScrollPreservedOnPoll ==
  [][\A i \in 1..MaxPolls :
       (/\ PollApplies(i) /\ tab = "chat" /\ list.rows = Len(chatItems)
        /\ ~isAtBottom(list, TRUE) /\ PureAppend(chatItems, chatItems'))
         => list'.scrollTop = list.scrollTop]_vars

RenderModes == {"preserve", "auto", "default"}

\* C19: in every reachable state and for every mode, rendering the window and then
\* rendering the same window again in the same mode leaves the list, its scroll
\* offset included, as the first render left it.
C19_RenderIdempotent ==
  \A mode \in RenderModes :
    LET first == renderChat(list, chatItems, mode, tab = "chat")
    IN  renderChat(first, chatItems, mode, tab = "chat") = first

\* C20: with every timer firing and every RPC returning or failing, polling that is
\* active always has a timer pending or a cycle in flight, every cycle in flight
\* ends, and a pending timer of active polling on a session leads to the start of
\* the next cycle, unless polling is stopped or the session is cleared first (a
\* cycle without session issues no RPC and re-arms the timer at once).
C20_NoCascadingHalt ==
  /\ [](chatPollingActive => (chatPollTimer.live \/ PollsInFlight # {}))
  /\ \A i \in 1..MaxPolls : (polls[i].pc # "idle") ~> (polls[i].pc = "idle")
  /\ (chatPollingActive /\ chatPollTimer.live /\ chatSessionKey # NoSession)
       ~> (\/ ~chatPollingActive \/ chatSessionKey = NoSession
           \/ (~chatPollTimer.live /\ PollsInFlight # {}))

\* a new cycle is running after a cycle that failed
C20_Witness ==
  /\ chatPollingActive /\ chatLastPollError /\ chatLastPollAppended = 0
  /\ \E i \in 1..MaxPolls : polls[i].pc = "refresh"

\* C21: a send in progress has issued exactly one chat_append call, and when that
\* call returns or fails the handler goes on to the latest fetch: a failed call is
\* not issued again.
C21_NoAppendRetry ==
  /\ [](snd.pc # "idle" => snd.appends = 1)
  /\ [][(snd.pc = "append" /\ snd' # snd) => snd'.pc = "latest"]_vars

\* the append of a send has failed and the handler has gone on
C21_Witness ==
  /\ snd.pc \in {"latest", "send"} /\ ~snd.stored /\ snd.appends = 1
  /\ chatSessionKey \in Sessions /\ budget.msgs > 0

\* the batches the delta query of cycle i can have returned
Batches(i) ==
  {DeltaBatch(polls[i], outcome, n) :
     outcome \in Outcomes \ {"error"}, n \in polls[i].callLen..LogLen(polls[i].session)}

\* C22: after every poll cycle that applies its batch, the window is the last 200
\* items of the old window followed by the items the merge appended.
C22_OldestEvicted ==
  [][\A i \in 1..MaxPolls :
       (PollApplies(i) /\ ~chatLastPollError')
         => \E newer \in Batches(i) :
              chatItems' = LastN(MergeAll(chatItems, newer), CHAT_UI_MAX_ITEMS)]_vars

\* the positions of a batch whose key is neither in the window nor earlier in the batch
FreshPositions(items, newer) ==
  LET inWindow == Keys(items)
      key == [j \in 1..Len(newer) |-> chatItemKey(newer[j])]
  IN  {j \in 1..Len(newer) : key[j] \notin inWindow /\ \A m \in 1..(j - 1) : key[m] # key[j]}

\* the items at those positions, in batch order
Fresh(items, newer) ==
  LET at == FreshPositions(items, newer)
  IN  [k \in 1..Cardinality(at) |-> newer[CHOOSE j \in at : Cardinality({m \in at : m < j}) = k - 1]]

CycleEnds(i) == polls[i].pc # "idle" /\ polls'[i].pc = "idle"
SendBoosts == snd.pc = "latest" /\ snd'.pc = "send"
PollingStarts == ~chatPollingActive /\ chatPollingActive'

\* C25: the timer armed at the end of a poll cycle has delay FAST when the clock is
\* before the boost deadline and BASE otherwise, the timer armed when polling
\* starts has delay INITIAL, and INITIAL is shorter than FAST and BASE.
C25_IntervalSelection ==
  [][/\ \A i \in 1..MaxPolls :
          (CycleEnds(i) /\ chatPollingActive)
            => /\ chatPollTimer'.live
               /\ chatPollTimer'.delay = IF now < chatPollBoostUntil' THEN CHAT_POLL_FAST_MS
                                          ELSE CHAT_POLL_INTERVAL_MS
     /\ PollingStarts => (chatPollTimer'.live /\ chatPollTimer'.delay = CHAT_POLL_INITIAL_MS)
     /\ CHAT_POLL_INITIAL_MS < CHAT_POLL_FAST_MS /\ CHAT_POLL_INITIAL_MS < CHAT_POLL_INTERVAL_MS]_vars

\* a cycle has ended after the boost deadline passed: the timer is armed at BASE
C25_Witness ==
  /\ chatPollingActive /\ chatPollTimer.live /\ chatPollTimer.delay = CHAT_POLL_INTERVAL_MS
  /\ chatPollBoostUntil > 0 /\ now >= chatPollBoostUntil /\ chatSessionKey \in Sessions

\* C26: the boost deadline becomes now + BOOST_WINDOW when a local send reaches
\* its boost and when a poll cycle ends with lastAppendedCount > 0; a cycle that
\* ends with lastAppendedCount = 0 or fails leaves it unchanged, and no other step
\* changes it.
C26_BoostExtension ==
  [][/\ \A i \in 1..MaxPolls :
          CycleEnds(i)
            => chatPollBoostUntil' = IF chatLastPollAppended' > 0 THEN now + CHAT_POLL_BOOST_WINDOW_MS
                                     ELSE chatPollBoostUntil
     /\ SendBoosts => chatPollBoostUntil' = now + CHAT_POLL_BOOST_WINDOW_MS
     /\ (chatPollBoostUntil' # chatPollBoostUntil)
          => (SendBoosts \/ \E i \in 1..MaxPolls : CycleEnds(i))]_vars

\* after the clock advanced, a cycle that counted an append has extended the boost
\* and a later cycle that counted none has left it
C26_Witness ==
  /\ now > TickMs /\ chatPollBoostUntil = now + CHAT_POLL_BOOST_WINDOW_MS
  /\ chatLastPollAppended = 0 /\ ~chatLastPollError /\ snd.pc = "idle" /\ snd.appends = 0
  /\ budget.clicks = MaxClicks - 2

\* C27: a poll cycle that completes leaves in the seen set every key of its batch
\* and every key the set held when the result was applied; no step within one
\* session removes a key from the set.
C27_SeenAccumulates ==
  [][/\ \A i \in 1..MaxPolls :
          (PollApplies(i) /\ ~chatLastPollError')
            => /\ chatLastSeenIds \subseteq chatLastSeenIds'
               /\ \E newer \in Batches(i) : Keys(newer) \subseteq chatLastSeenIds'
     /\ (chatSessionKey' = chatSessionKey) => chatLastSeenIds \subseteq chatLastSeenIds']_vars

\* the largest scroll offset of the list: the offset of a list pinned to the bottom
MaxScroll(l, visible) == scrollHeight(l.rows, visible) - clientHeight(visible)

DefaultRender == renderChat(list, chatItems, "default", tab = "chat")

\* C28: in every reachable state, rendering the window with neither option leaves
\* the list pinned to the bottom if and only if the gap was below 6 pixels before
\* the render, and otherwise leaves the scroll offset equal to the offset before.
C28_DefaultRenderPins ==
  /\ (DefaultRender.scrollTop = MaxScroll(DefaultRender, tab = "chat")) <=> isAtBottom(list, tab = "chat")
  /\ ~isAtBottom(list, tab = "chat") => DefaultRender.scrollTop = list.scrollTop

\* C28 as amended: rendering with neither option leaves the list pinned to the
\* bottom if the gap was below 6 pixels before the render, and otherwise leaves
\* the offset before the render, limited to the scroll range of the new rows.
C28_DefaultRenderPinsInRange ==
  /\ isAtBottom(list, tab = "chat") => DefaultRender.scrollTop = MaxScroll(DefaultRender, tab = "chat")
  /\ ~isAtBottom(list, tab = "chat")
       => DefaultRender.scrollTop = ClampScroll(list.scrollTop, Len(chatItems), tab = "chat")

\* the list holds more rows than the window and is scrolled to less than a row,
\* but not within the tolerance, above its bottom: the render shortens the list
\* and the offset is limited to the new range
C28_Witness ==
  /\ tab = "chat" /\ Len(chatItems) > 0 /\ list.rows > Len(chatItems)
  /\ ~isAtBottom(list, TRUE)
  /\ list.scrollTop > MaxScroll(DefaultRender, TRUE)
  /\ DefaultRender.scrollTop = MaxScroll(DefaultRender, TRUE)

\* the pages the pending request for older items can be answered with
Pages ==
  {<<>>} \cup {QueryBefore(Prefix(older.session, n), older.beforeId, CHAT_HISTORY_PAGE_LIMIT).items :
                 n \in older.callLen..LogLen(older.session)}

IdsOf(items) == {items[i].id : i \in 1..Len(items)} \ {0}

IsPrefix(a, b) == Len(a) <= Len(b) /\ a = SubSeq(b, 1, Len(a))
IsSuffix(a, b) == Len(a) <= Len(b) /\ a = SubSeq(b, Len(b) - Len(a) + 1, Len(b))

\* C29: a page of older items is applied in one step that keeps the window as it
\* is at that moment at the end of the new window and puts the items of the page
\* before it, and a completed poll cycle that leaves the window below capacity is
\* applied in one step that keeps the window as it is at that moment at the start
\* of the new window and puts the items of the batch after it: whichever response
\* arrives first, neither mutation drops what the other one added.
C29_NoLostMutation ==
  [][/\ (PageApplies /\ older'.last = "applied")
          => /\ IsSuffix(chatItems, chatItems')
             /\ \E page \in Pages :
                  /\ IdsOf(page) \subseteq IdsOf(chatItems')
                  /\ IdsOf(SubSeq(chatItems', 1, Len(chatItems') - Len(chatItems))) \subseteq IdsOf(page)
     /\ \A i \in 1..MaxPolls :
          (PollApplies(i) /\ ~chatLastPollError' /\ Len(chatItems') < CHAT_UI_MAX_ITEMS)
            => /\ IsPrefix(chatItems, chatItems')
               /\ \E newer \in Batches(i) :
                    /\ Keys(newer) \subseteq Keys(chatItems')
                    /\ Keys(SubSeq(chatItems', Len(chatItems) + 1, Len(chatItems'))) \subseteq Keys(newer)]_vars

\* the request for older items is pending since before the log grew, and a poll
\* cycle has meanwhile appended the new message to the window of the start
C29_Witness ==
  /\ older.pc = "page" /\ older.session = "s1" /\ chatSessionKey = "s1"
  /\ older.callLen = MidLen /\ LogLen("s1") = MidLen + 1
  /\ Len(chatItems) = CHAT_HISTORY_PAGE_LIMIT + 1
  /\ chatItems[1] = log["s1"][MidLen - CHAT_HISTORY_PAGE_LIMIT + 1]
  /\ chatItems[Len(chatItems)] = log["s1"][MidLen + 1]

\* the responses the pending request for older items can be answered with
PageResponses ==
  {[items |-> <<>>, has_older |-> FALSE]}
    \cup {QueryBefore(Prefix(older.session, n), older.beforeId, CHAT_HISTORY_PAGE_LIMIT) :
            n \in older.callLen..LogLen(older.session)}

\* C30: when a page of older items has been applied, the window is the items of
\* the page whose dedupe key is not in the previous window, in the order of the
\* page, followed by the previous window, and hasOlder is the flag of the page.
C30_PaginationMerge ==
  [][(PageApplies /\ older'.last = "applied")
       => \E resp \in PageResponses :
            /\ chatItems' = SelectSeq(resp.items, LAMBDA it : chatItemKey(it) \notin Keys(chatItems)) \o chatItems
            /\ chatHasOlder' = resp.has_older]_vars

\* the delta response of cycle i carries no items array
PollDeltaMalformed(i) == \E marking \in BOOLEAN : PollDeltaWith(i, marking, "malformed")

\* C31: a poll cycle whose delta response has no items array leaves the window and
\* the seen set unchanged, sets lastAppendedCount to 0 and, while polling is
\* active, arms the timer of the next cycle.
C31_MalformedIsEmpty ==
  [][\A i \in 1..MaxPolls :
       PollDeltaMalformed(i)
         => /\ chatItems' = chatItems
            /\ chatLastSeenIds' = chatLastSeenIds
            /\ chatLastPollAppended' = 0
            /\ chatPollingActive => chatPollTimer'.live]_vars

StartReturns == tabChat.pc = "usage" /\ tabChat'.pc = "idle"

\* C32: the event loop never holds more than one poll timer, and holds one only
\* while polling is active; every step that arms a timer leaves exactly that one
\* pending; startChatPolling while polling is active leaves the timer as it is.
C32_SingleTimer ==
  /\ [](chatPollTimer.pending <= 1 /\ (chatPollTimer.pending > 0 => chatPollingActive))
  /\ [][/\ (chatPollTimer'.live /\ chatPollTimer' # chatPollTimer) => chatPollTimer'.pending = 1
        /\ (StartReturns /\ chatPollingActive) => chatPollTimer' = chatPollTimer]_vars

\* after a failed cycle had armed the timer, a local send has armed it again
C32_Witness ==
  /\ chatPollingActive /\ chatPollTimer.live /\ chatPollTimer.delay = CHAT_POLL_INITIAL_MS
  /\ chatPollTimer.pending = 1
  /\ chatLastPollError /\ PollsInFlight = {} /\ snd.pc = "send"
  /\ budget.clicks = MaxClicks - 2

\* C33: whenever no switchTab handler is pending, polling is active if and only if
\* the chat view is the one selected.
C33_PollingFollowsView ==
  (tabChat.pc = "idle" /\ tabOther = "idle") => (chatPollingActive <=> tab = "chat")

\* C34: a poll cycle that starts while polling is active and no session is selected
\* starts no RPC, leaves the window and the seen set unchanged, sets
\* lastAppendedCount to 0 and clears lastError, and arms the timer of the next cycle
\* with BASE_INTERVAL, also while the boost deadline lies ahead.
C34_PollWithoutSession ==
  [][(TimerFire /\ chatPollingActive /\ chatSessionKey = NoSession)
       => /\ polls' = polls
          /\ chatItems' = chatItems /\ chatLastSeenIds' = chatLastSeenIds
          /\ chatLastPollAppended' = 0 /\ ~chatLastPollError'
          /\ chatPollTimer'.live /\ chatPollTimer'.delay = CHAT_POLL_INTERVAL_MS]_vars

\* a cycle without session has armed the timer at BASE_INTERVAL before the boost
\* deadline
C34_Witness ==
  /\ chatPollingActive /\ chatSessionKey = NoSession /\ now < chatPollBoostUntil
  /\ chatPollTimer.live /\ chatPollTimer.delay = CHAT_POLL_INTERVAL_MS
  /\ chatLastPollAppended = 0 /\ ~chatLastPollError /\ PollsInFlight = {}

\* C35: while no remote log holds two messages with the same dedupe key, so that no
\* response does, no two items of the window have the same dedupe key.
C35_WindowKeysUnique ==
  (\A s \in Sessions : Cardinality(Keys(log[s])) = Len(log[s]))
    => Cardinality(Keys(chatItems)) = Len(chatItems)

\* a page of older items has been prepended and a message the log gained has
\* reached the window: the window is the whole log of the session, each message once
C35_Witness ==
  /\ older.pc = "idle" /\ older.last = "applied" /\ PollsInFlight = {}
  /\ chatSessionKey = "s1" /\ LogLen("s1") = MidLen + 1
  /\ Len(chatItems) = MidLen + 1 /\ chatItems = log["s1"]

DeltaSent(i) == polls[i].pc = "refresh" /\ polls'[i].pc = "delta"

\* C36: the after_ts a poll cycle sends is not below the after_ts the cycle before
\* it sent for the same session.
C36_CursorMonotonic ==
  [][\A i \in 1..MaxPolls :
       (DeltaSent(i) /\ pollMark.sent = polls[i].session)
         => polls'[i].afterTs >= pollMark.afterTs]_vars

\* the chat view, a session switch and pagination over a history a little longer
\* than one page
NextOlder ==
  \/ TabChatClick \/ TabChatSessions \/ TabChatLatest \/ TabChatUsage
  \/ TabOtherClick \/ TabOtherDone
  \/ SessionChange \/ SwitchLatest \/ SwitchUsage
  \/ LoadOlderClick \/ LoadOlderReturn
  \/ ServerAppend

\* every pagination RPC returns or fails
SpecOlder == InitBoth /\ [][NextOlder]_vars /\ WF_vars(LoadOlderReturn)

\* C37: loadingOlder is true exactly while the pagination RPC is outstanding, the
\* step in which the RPC returns or fails leaves it false, and a true loadingOlder
\* is always followed by a false one.
C37_LoadingTracksRequest ==
  /\ [](chatLoadingOlder <=> older.pc = "page")
  /\ [][PageApplies => ~chatLoadingOlder']_vars
  /\ (chatLoadingOlder ~> ~chatLoadingOlder)

\* a pagination RPC has failed and left the flag false with no request outstanding
C37_Witness ==
  /\ older.pc = "idle" /\ older.last = "failed" /\ ~chatLoadingOlder
  /\ chatItems # <<>> /\ FirstId(chatItems) # 0

====
